---- MODULE Spec2Model ----
(***************************************************************************)
(* State-machine model of the "5 Common React Misconceptions" application. *)
(*                                                                         *)
(* The shell (App) mounts one Topic Page; a Topic Page owns showGood and   *)
(* renders either its BadImplementation or its GoodImplementation.  The    *)
(* list-identity page (IndexAsKey) is modelled in full: items, the         *)
(* inputValues map, the module-level nextId.  The other four pages are     *)
(* modelled by the render-tracking effect their variants share             *)
(* (useEffect without dependency array that calls setRenderCount).         *)
(*                                                                         *)
(* React semantics used: a state setter called with the current value      *)
(* bails out; an element of another type at the same position unmounts     *)
(* the old instance and mounts a new one whose useState cells take their   *)
(* initial values; passive effects run after the commit of a render pass;  *)
(* a setter called inside an effect schedules another render pass.         *)
(*                                                                         *)
(* The random colour of a list item is presentational and is left out.     *)
(* An item's text `Task ${k}` is the pair <<"Task", k>>.                   *)
(***************************************************************************)
EXTENDS Integers, Sequences, FiniteSets, TLC

\* ---------------------------------------------------------------- bounds
\* nextId is not advanced beyond this value (addItem is disabled then).
MaxNextId == 6

\* addItem is disabled while the list has this many rows.
MaxItems == 3

\* The render counters stop counting here; the render loop itself goes on.
MaxRenderCount == 5

\* Largest value of the unrelated counter that is followed.
MaxUnrelated == 2

\* Size of the data set of the re-render-cost page (5000 in the source).
ItemCount == 4

\* Updates of the clock that are followed.
MaxTicks == 5

\* Pending timers of one kind that are told apart.
MaxTimers == 2

\* ------------------------------------------------------------- constants
Pages ==
  {"memoization", "fearing-rerenders", "context-misuse", "index-as-key",
   "useeffect-redundancy"}

ListPage == "index-as-key"

\* Texts a user types into a per-row input.
Texts == {"a", "b", "c"}

FirstNextId == 4

TaskText(k) == <<"Task", k>>

InitialItems ==
  << [id |-> 1, text |-> TaskText(1), completed |-> FALSE],
     [id |-> 2, text |-> TaskText(2), completed |-> FALSE],
     [id |-> 3, text |-> TaskText(3), completed |-> FALSE] >>

EmptyMap == [k \in {} |-> ""]

FearPage == "fearing-rerenders"

\* Strings are sequences of characters where the code looks inside them.
Digit(i) == << "0", "1", "2", "3", "4", "5", "6", "7", "8", "9" >>[(i % 10) + 1]

\* `Item ${i}`
ItemName(i) == << "I", "t", "e", "m", " ", Digit(i) >>

\* Math.random() * 1000 and the random category, as drawn once when the
\* module is loaded: one fixed draw with pairwise distinct values.
ItemValue(i) == (i * 37 + 11) % 101

ItemCategory(i) == << "A", "B", "C", "D" >>[((i * 3) % 4) + 1]

\* const ITEMS = generateItems(5000)
ITEMS ==
  [i \in 1..ItemCount |->
     [id |-> i - 1, name |-> ItemName(i - 1), value |-> ItemValue(i - 1),
      category |-> ItemCategory(i - 1)]]

\* Texts typed into the filter input.
Filters == { << >>, << "1" >>, << "I", "T" >> }

\* <option> values of the category select
Categories == {"ALL", "A", "B", "C", "D"}

CardPage == "useeffect-redundancy"

MemoPage == "memoization"

\* Texts typed into the input of the memoization page ('' is its initial
\* value).
InputTexts == {"", "h", "hi"}

ContextPage == "context-misuse"

\* useState('John') / useState('Doe')
InitialFirstName == << "J", "o", "h", "n" >>

InitialLastName == << "D", "o", "e" >>

\* Texts typed into the first-name and last-name inputs.
FirstNames == { InitialFirstName, << "A", "l" >>, << >> }

LastNames == { InitialLastName, << "X" >> }

\* The dependency record of an effect that has not run yet.
NoDeps == [set |-> FALSE, deps |-> << >>]

NoMemo == [set |-> FALSE, deps |-> << << >>, "ALL" >>, value |-> << >>]

NoOwner == [k \in {} |-> 0]

VARIABLES
  currentPage,   \* App: id of the Topic Page that is mounted
  showGood,      \* Topic Page: the toggle
  mounted,       \* set of Demo Variants the Topic Page has mounted
  nextId,        \* IndexAsKey module: let nextId
  items,         \* list variant: useState items
  inputValues,   \* list variant: useState inputValues (key -> text)
  typedFor,      \* history: key -> id of the item in the row when typed
  everIds,       \* history: ids of all items the list instance ever held
  filter,        \* re-render-cost variant: useState filter
  category,      \* re-render-cost variant: useState category
  unrelatedState,    \* re-render-cost variant: useState unrelatedState
  calculationCount,  \* good re-render-cost variant: useState calculationCount
  memo,          \* good re-render-cost variant: the useMemo cell
  filteredItems, \* re-render-cost variant: filteredItems of the last pass
  calcRuns,      \* history: executions of filter+sort in the instance
  firstName,     \* derived-state page: useState firstName of the parent
  lastName,      \* derived-state page: useState lastName of the parent
  fullName,      \* bad card: useState fullName
  shownFullName, \* card: the full name displayed by the last render pass
  isFlashing,    \* bad card: useState isFlashing
  effectRunCount,    \* bad card: useState effectRunCount
  effectDeps,    \* dependencies of the last run of the variant's effect
  flashTimers,   \* pending setTimeout timers of the bad card
  clockTimers,   \* running setInterval timers of the time provider
  renderingTimers,   \* pending setTimeout timers of the slow child
  inputValue,    \* memoization page: useState inputValue
  shownRenderCount,  \* memoization page: renderCount the parent rendered last
  childPasses,   \* history: render passes of the slow child in the instance
  inputPasses,   \* history: render passes of InputComponent in the instance
  isRendering,   \* slow child: useState isRendering
  currentTime,   \* context page: useState currentTime, as seconds since mount
  renderCount,   \* variant: useState renderCount
  renderPasses,  \* history: completed render passes of the instance
  phase,         \* "idle" | "effects" (commit done, effects due) | "render"
  lastEvent      \* history: the step taken last

\* State of the list variant.
listVars == << items, inputValues, typedFor, everIds >>

\* Render tracking of the mounted variant.
trackVars == << renderCount, renderPasses, phase >>

\* State of the re-render-cost variant.
fearVars ==
  << filter, category, unrelatedState, calculationCount, memo, filteredItems,
     calcRuns >>

\* State of the derived-state variant (parent and card).
cardVars ==
  << firstName, lastName, fullName, shownFullName, isFlashing,
     effectRunCount >>

\* Effect bookkeeping: recorded dependencies and pending timers.
effectVars == << effectDeps, flashTimers, clockTimers, renderingTimers >>

\* State of the memoization variant (parent, input and slow child).
memoVars ==
  << inputValue, shownRenderCount, childPasses, inputPasses, isRendering >>

\* Everything a Demo Variant owns.
variantVars ==
  << listVars, trackVars, fearVars, cardVars, effectVars, currentTime,
     memoVars >>

vars ==
  << currentPage, showGood, mounted, nextId, variantVars, lastEvent >>

Event(op, arg, remount) ==
  [op |-> op, arg |-> arg, remount |-> remount, cancelled |-> 0]

BoolArg(b) == IF b THEN 1 ELSE 0

\* --------------------------------------------------------- pure helpers
Min(a, b) == IF a < b THEN a ELSE b

Ids(its) == { its[i].id : i \in 1..Len(its) }

\* prev.filter((_, i) => i !== index), from element i on (i is 1-based here)
RECURSIVE FilterIndex(_, _, _)
FilterIndex(its, i, index) ==
  IF i > Len(its) THEN << >>
  ELSE IF i - 1 # index
       THEN << its[i] >> \o FilterIndex(its, i + 1, index)
       ELSE FilterIndex(its, i + 1, index)

\* prev.filter(item => item.id !== id), from element i on
RECURSIVE FilterId(_, _, _)
FilterId(its, i, id) ==
  IF i > Len(its) THEN << >>
  ELSE IF its[i].id # id
       THEN << its[i] >> \o FilterId(its, i + 1, id)
       ELSE FilterId(its, i + 1, id)

\* { ...prev, [key]: value }
MapSet(m, key, value) ==
  [k \in DOMAIN m \cup {key} |-> IF k = key THEN value ELSE m[k]]

\* const n = { ...prev }; delete n[key]
MapDelete(m, key) == [k \in DOMAIN m \ {key} |-> m[k]]

\* inputValues[key] || ''
MapGet(m, key) == IF key \in DOMAIN m THEN m[key] ELSE ""

\* ------------------------------------------------- filter + sort (page 2)
\* String.prototype.toLowerCase on one character
LowerChar(c) == IF c = "I" THEN "i" ELSE IF c = "T" THEN "t" ELSE c

ToLowerCase(str) == [i \in 1..Len(str) |-> LowerChar(str[i])]

\* String.prototype.includes
Includes(str, part) ==
  \E start \in 1..(Len(str) + 1) :
    /\ start + Len(part) - 1 <= Len(str)
    /\ SubSeq(str, start, start + Len(part) - 1) = part

\* The predicate of ITEMS.filter(...)
Matches(item, f, c) ==
  LET matchesFilter == Includes(ToLowerCase(item.name), ToLowerCase(f))
      matchesCategory == c = "ALL" \/ item.category = c
  IN matchesFilter /\ matchesCategory

RECURSIVE FilterItems(_, _, _, _)
FilterItems(its, i, f, c) ==
  IF i > Len(its) THEN << >>
  ELSE IF Matches(its[i], f, c)
       THEN << its[i] >> \o FilterItems(its, i + 1, f, c)
       ELSE FilterItems(its, i + 1, f, c)

\* Insert one element into a sequence sorted by (a, b) => b.value - a.value,
\* behind the elements that compare equal (the sort is stable).
RECURSIVE InsertDesc(_, _)
InsertDesc(sorted, item) ==
  IF sorted = << >> THEN << item >>
  ELSE IF sorted[1].value - item.value < 0
       THEN << item >> \o sorted
       ELSE << sorted[1] >> \o InsertDesc(Tail(sorted), item)

\* Array.prototype.sort((a, b) => b.value - a.value)
RECURSIVE SortDesc(_, _)
SortDesc(its, n) ==
  IF n = 0 THEN << >> ELSE InsertDesc(SortDesc(its, n - 1), its[n])

\* ITEMS.filter(...).sort(...)
FilterSort(f, c) ==
  LET kept == FilterItems(ITEMS, 1, f, c) IN SortDesc(kept, Len(kept))

\* FilterSort over the inputs that are followed, evaluated once.
FilterSortTable == [f \in Filters, c \in Categories |-> FilterSort(f, c)]

\* Counters of executions stop counting with the render passes.
CountUp(n) == Min(n + 1, MaxRenderCount + 1)

\* Variant of DepsChanged: category is missing from the dependency array.
DepsChangedFilterOnly(mem, f, c) == ~mem.set \/ mem.deps[1] # f

\* Variant of DepsChanged: the memo is never reused.
DepsChangedAlways(mem, f, c) == TRUE

\* areHookInputsEqual of useMemo(..., [filter, category]), negated
DepsChanged(mem, f, c) == ~mem.set \/ mem.deps # << f, c >>

\* Variant of BadComputes: the bad variant caches like the good one.
BadComputesOnChange(mem, f, c) == ~mem.set \/ mem.deps # << f, c >>

\* The bad variant runs filter+sort in the render body.
BadComputes(mem, f, c) == TRUE

\* Variant of BumpCalculation: the updater is applied twice.
BumpCalculationTwice(n) == Min(n + 2, MaxRenderCount + 1)

\* setCalculationCount(prev => prev + 1)
BumpCalculation(n) == CountUp(n)

\* One render pass of a re-render-cost variant with filter f and category c:
\* the memo cell, the counters and filteredItems after the pass.
FearRender(sg, f, c, mem, calc, runs) ==
  IF sg
  THEN IF DepsChanged(mem, f, c)
       THEN [memo |-> [set |-> TRUE, deps |-> << f, c >>, value |-> FilterSortTable[f, c]],
             calculationCount |-> BumpCalculation(calc),
             calcRuns |-> CountUp(runs),
             filteredItems |-> FilterSortTable[f, c]]
       ELSE [memo |-> mem, calculationCount |-> calc, calcRuns |-> runs,
             filteredItems |-> mem.value]
  ELSE IF BadComputes(mem, f, c)
       THEN [memo |-> [set |-> TRUE, deps |-> << f, c >>, value |-> FilterSortTable[f, c]],
             calculationCount |-> calc,
             calcRuns |-> CountUp(runs),
             filteredItems |-> FilterSortTable[f, c]]
       ELSE [memo |-> mem, calculationCount |-> calc, calcRuns |-> runs,
             filteredItems |-> mem.value]

\* --------------------------------------------------------- what is shown
\* Variant of Rendered: both variants stay mounted, one of them hidden.
RenderedBoth(sg) == {"bad", "good"}

\* {!showGood ? <BadImplementation /> : <GoodImplementation />}
Rendered(sg) == IF ~sg THEN {"bad"} ELSE {"good"}

\* Variant of KeepsInstance: every click on a toggle button remounts.
KeepsInstanceNever(prev, next) == FALSE

\* Reconciliation keeps an instance when the element type at the position
\* is the same as before.
KeepsInstance(prev, next) == prev = next

\* Variant of RenderPage: every id falls through to the default case.
RenderPageDefault(id) == "MemoizationVsColocation"

\* App.renderPage: the page component the switch returns for an id
RenderPage(id) ==
  CASE id = "memoization" -> "MemoizationVsColocation"
    [] id = "fearing-rerenders" -> "FearingReRenders"
    [] id = "context-misuse" -> "ContextMisuse"
    [] id = "index-as-key" -> "IndexAsKey"
    [] id = "useeffect-redundancy" -> "UseEffectRedundancy"
    [] OTHER -> "MemoizationVsColocation"

\* Every variant except the two list variants tracks its renders.
HasRenderTracker(page) == page # ListPage

\* Variant of TrackRender: the effect runs twice per render pass.
TrackRenderTwice(rc) == Min(rc + 2, MaxRenderCount)

\* setRenderCount(prev => prev + 1)
TrackRender(rc) == Min(rc + 1, MaxRenderCount)

\* Variant of BadKey: the bad variant keyed by id.
BadKeyById(its, p) == its[p + 1].id

\* Bad list variant: the row at 0-based position p keeps its text under p.
BadKey(its, p) == p

\* Variant of GoodKey: the good variant keyed by position.
GoodKeyByIndex(its, p) == p

\* Good list variant: the row keeps its text under the item's id.
GoodKey(its, p) == its[p + 1].id

RowKey(sg, its, p) == IF sg THEN GoodKey(its, p) ELSE BadKey(its, p)

\* value={inputValues[key] || ''}
DisplayedText(sg, its, vals, p) == MapGet(vals, RowKey(sg, its, p))

\* checked={item.completed}
DisplayedChecked(its, p) == its[p + 1].completed

DisplayedId(its, p) == its[p + 1].id

Rows(its) == 0..(Len(its) - 1)

\* ------------------------------------------------------------- mounting
\* ------------------------------------------------ derived state (page 5)
\* `${firstName} ${lastName}`
FullName(fn, ln) == fn \o << " " >> \o ln

\* Variant of CardFullName: both cards show the stored state.
CardFullNameStored(sg, fn, ln, stored) == stored

\* Variant of CardFullName: both cards derive the name while rendering.
CardFullNameDerived(sg, fn, ln, stored) == FullName(fn, ln)

\* The full name a card renders: GoodUserCard computes it from its props,
\* BadUserCard reads its fullName state.
CardFullName(sg, fn, ln, stored) == IF sg THEN FullName(fn, ln) ELSE stored

\* Variant of ClearTimers: the cleanup does not clear.
ClearTimersLeak(n) == n

\* clearTimeout / clearInterval in an effect's cleanup: pending timers after
\* it
ClearTimers(n) == 0

\* setTimeout / setInterval: pending timers after the call
StartTimer(n) == Min(n + 1, MaxTimers)

\* One render pass of the card with the parent's names fn and ln.
CardRenderTo(sg, fn, ln) ==
  /\ firstName' = fn
  /\ lastName' = ln
  /\ shownFullName' = CardFullName(sg, fn, ln, fullName)

\* useState initial values of parent and card and the first render pass
CardMount(page, sg) ==
  /\ firstName' = InitialFirstName
  /\ lastName' = InitialLastName
  /\ fullName' = << >>
  /\ shownFullName' =
       (IF page = CardPage
        THEN CardFullName(sg, InitialFirstName, InitialLastName, << >>)
        ELSE << >>)
  /\ isFlashing' = FALSE
  /\ effectRunCount' = 0

\* The unmounted variant's cleanups ran; no effect of the new one has run.
EffectMount ==
  /\ effectDeps' = NoDeps
  /\ flashTimers' = ClearTimers(flashTimers)
  /\ clockTimers' = ClearTimers(clockTimers)
  /\ renderingTimers' = ClearTimers(renderingTimers)

\* The timers the cleanups of the variant on screen cancel when it unmounts.
CancelledByUnmount ==
  (flashTimers - ClearTimers(flashTimers))
    + (clockTimers - ClearTimers(clockTimers))
    + (renderingTimers - ClearTimers(renderingTimers))

\* The event of an unmount and mount.
RemountEvent(op, arg) ==
  [Event(op, arg, TRUE) EXCEPT !.cancelled = CancelledByUnmount]

\* The effect with dependencies [] of BadGlobalProvider / GoodTimeProvider,
\* run in an effect flush: it starts the interval once.
ProviderEffect ==
  IF ~effectDeps.set
  THEN /\ clockTimers' = StartTimer(clockTimers)
       /\ effectDeps' = [set |-> TRUE, deps |-> << >>]
  ELSE UNCHANGED << clockTimers, effectDeps >>

\* React.memo of ExpensiveComponent: the render is skipped when the only
\* prop, renderCount, is the one rendered before.
MemoSkips(prevProp, nextProp) == prevProp = nextProp

\* Whether a render pass of the parent renders the slow child: the good
\* variant's SlowComponentWithoutMemo always, the bad variant's memo-wrapped
\* ExpensiveComponent unless the wrapper skips.
ChildRendersWithParent(sg, prevProp, nextProp) ==
  sg \/ ~MemoSkips(prevProp, nextProp)

\* Variant of InputStateInParent: the input state lives in the parent in both
\* variants.
InputStateInParentAlways(sg) == TRUE

\* Where useState inputValue lives: in BadImplementation itself, or in
\* InputComponent next to GoodImplementation's other children.
InputStateInParent(sg) == ~sg

\* The effect on [renderCount] of the slow child, run in an effect flush
ChildEffect ==
  IF ~effectDeps.set \/ effectDeps.deps # << shownRenderCount >>
  THEN /\ isRendering' = TRUE
       /\ renderingTimers' = StartTimer(ClearTimers(renderingTimers))
       /\ effectDeps' = [set |-> TRUE, deps |-> << shownRenderCount >>]
  ELSE UNCHANGED << isRendering, renderingTimers, effectDeps >>

\* useState initial values of the memoization variant and its first pass
MemoMount(page, sg) ==
  /\ inputValue' = ""
  /\ shownRenderCount' = 0
  /\ childPasses' = (IF page = MemoPage THEN 1 ELSE 0)
  /\ inputPasses' = (IF page = MemoPage /\ sg THEN 1 ELSE 0)
  /\ isRendering' = FALSE

\* Variant of ProfileContextChanged: the profile is never notified.
ProfileContextChangedNever(sg, providerRendered) == FALSE

\* Whether the context the user profile reads has a new value after the time
\* state changed: the bad provider passes a new { user, currentTime } object
\* in every render, the good user provider the same user object.
ProfileContextChanged(sg, providerRendered) ==
  IF sg THEN FALSE ELSE providerRendered

\* Variant of BadCardEffect: the effect has no dependency array and runs in
\* every effect flush.
BadCardEffectEveryFlush ==
  /\ isFlashing' = TRUE
  /\ fullName' = FullName(firstName, lastName)
  /\ effectRunCount' = CountUp(effectRunCount)
  /\ flashTimers' = StartTimer(ClearTimers(flashTimers))
  /\ effectDeps' = [set |-> TRUE, deps |-> << firstName, lastName >>]
  /\ UNCHANGED << clockTimers, renderingTimers >>

\* BadUserCard's effect on [firstName, lastName], run in an effect flush
BadCardEffect ==
  IF ~effectDeps.set \/ effectDeps.deps # << firstName, lastName >>
  THEN /\ isFlashing' = TRUE
       /\ fullName' = FullName(firstName, lastName)
       /\ effectRunCount' = CountUp(effectRunCount)
       /\ flashTimers' = StartTimer(ClearTimers(flashTimers))
       /\ effectDeps' = [set |-> TRUE, deps |-> << firstName, lastName >>]
       /\ UNCHANGED << clockTimers, renderingTimers >>
  ELSE UNCHANGED << isFlashing, fullName, effectRunCount, effectVars >>

\* The effects of the variant on screen besides the render tracking.
PageEffects ==
  /\ IF currentPage = CardPage /\ ~showGood
     THEN /\ BadCardEffect
          /\ UNCHANGED << firstName, lastName, shownFullName, isRendering >>
     ELSE IF currentPage = ContextPage
          THEN /\ ProviderEffect
               /\ UNCHANGED << cardVars, flashTimers, renderingTimers,
                               isRendering >>
          ELSE IF currentPage = MemoPage
               THEN /\ ChildEffect
                    /\ UNCHANGED << cardVars, flashTimers, clockTimers >>
               ELSE UNCHANGED << cardVars, effectVars, isRendering >>
  /\ UNCHANGED << currentTime, inputValue, shownRenderCount, childPasses,
                  inputPasses >>

\* The re-render-cost variant after a render pass with filter f, category c
\* and unrelated counter u.
FearRenderTo(sg, f, c, u) ==
  LET r == FearRender(sg, f, c, memo, calculationCount, calcRuns)
  IN /\ filter' = f
     /\ category' = c
     /\ unrelatedState' = u
     /\ memo' = r.memo
     /\ calculationCount' = r.calculationCount
     /\ calcRuns' = r.calcRuns
     /\ filteredItems' = r.filteredItems

\* useState('') / useState('ALL') / useState(0) and the first render pass
FearMount(page, sg) ==
  LET r == FearRender(sg, << >>, "ALL", NoMemo, 0, 0)
  IN /\ filter' = << >>
     /\ category' = "ALL"
     /\ unrelatedState' = 0
     /\ memo' = (IF page = FearPage THEN r.memo ELSE NoMemo)
     /\ calculationCount' = (IF page = FearPage THEN r.calculationCount ELSE 0)
     /\ calcRuns' = (IF page = FearPage THEN r.calcRuns ELSE 0)
     /\ filteredItems' = (IF page = FearPage THEN r.filteredItems ELSE << >>)

\* The render body of the variant on screen, run by a render pass that no
\* event of the variant caused.
Rerender ==
  /\ IF currentPage = FearPage
     THEN FearRenderTo(showGood, filter, category, unrelatedState)
     ELSE UNCHANGED fearVars
  /\ IF currentPage = CardPage
     THEN /\ CardRenderTo(showGood, firstName, lastName)
          /\ UNCHANGED << fullName, isFlashing, effectRunCount >>
     ELSE UNCHANGED cardVars
  /\ IF currentPage = MemoPage
     THEN /\ shownRenderCount' = renderCount
          /\ childPasses' =
               (IF ChildRendersWithParent(showGood, shownRenderCount,
                                          renderCount)
                THEN CountUp(childPasses) ELSE childPasses)
          /\ UNCHANGED << inputValue, inputPasses, isRendering >>
     ELSE UNCHANGED memoVars
  /\ UNCHANGED << effectVars, currentTime >>

\* Variant of MountVariant: the state of the variant shown before is kept.
MountVariantStale(page, sg) == UNCHANGED variantVars

\* A freshly mounted variant: every useState cell at its initial value, the
\* first render pass committed.
MountVariant(page, sg) ==
  /\ items' = IF page = ListPage THEN InitialItems ELSE << >>
  /\ inputValues' = EmptyMap
  /\ typedFor' = NoOwner
  /\ everIds' = (IF page = ListPage THEN Ids(InitialItems) ELSE {})
  /\ renderCount' = 0
  /\ renderPasses' = IF HasRenderTracker(page) THEN 1 ELSE 0
  /\ phase' = IF HasRenderTracker(page) THEN "effects" ELSE "idle"
  /\ FearMount(page, sg)
  /\ CardMount(page, sg)
  /\ EffectMount
  /\ currentTime' = 0
  /\ MemoMount(page, sg)

KeepVariant == UNCHANGED variantVars

Init ==
  /\ currentPage = "memoization"
  /\ showGood = FALSE
  /\ mounted = Rendered(FALSE)
  /\ nextId = FirstNextId
  /\ items = << >>
  /\ inputValues = EmptyMap
  /\ typedFor = NoOwner
  /\ everIds = {}
  /\ filter = << >>
  /\ category = "ALL"
  /\ unrelatedState = 0
  /\ calculationCount = 0
  /\ memo = NoMemo
  /\ filteredItems = << >>
  /\ calcRuns = 0
  /\ firstName = InitialFirstName
  /\ lastName = InitialLastName
  /\ fullName = << >>
  /\ shownFullName = << >>
  /\ isFlashing = FALSE
  /\ effectRunCount = 0
  /\ effectDeps = NoDeps
  /\ flashTimers = 0
  /\ clockTimers = 0
  /\ currentTime = 0
  /\ renderingTimers = 0
  /\ inputValue = ""
  /\ shownRenderCount = 0
  /\ childPasses = 1
  /\ inputPasses = 0
  /\ isRendering = FALSE
  /\ renderCount = 0
  /\ renderPasses = 1
  /\ phase = "effects"
  /\ lastEvent = Event("init", 0, TRUE)

\* Discrete events are handled after pending passive effects were flushed.
CanHandleEvent == phase # "effects"

\* ---------------------------------------------------------------- shell
\* Variant of PageToggleOnMount: the toggle of the page left is inherited.
PageToggleKept(prev) == prev

\* const [showGood, setShowGood] = useState(false) of a page component that
\* mounts; prev is the toggle of the page that unmounts.
PageToggleOnMount(prev) == FALSE

\* Sidebar button: onPageChange(page.id) = setCurrentPage(id). The event
\* records the toggle state it found.
SetCurrentPage(id) ==
  /\ CanHandleEvent
  /\ currentPage' = id
  /\ IF KeepsInstance(RenderPage(currentPage), RenderPage(id))
     THEN /\ UNCHANGED << showGood, mounted >>
          /\ KeepVariant
          /\ lastEvent' = Event("page", BoolArg(showGood), FALSE)
     ELSE /\ showGood' = PageToggleOnMount(showGood)
          /\ mounted' = Rendered(PageToggleOnMount(showGood))
          /\ MountVariant(id, PageToggleOnMount(showGood))
          /\ lastEvent' = RemountEvent("page", BoolArg(showGood))
  /\ UNCHANGED nextId

\* PageHeader / page buttons: onToggle(v) = setShowGood(v)
SetShowGood(v) ==
  /\ CanHandleEvent
  /\ showGood' = v
  /\ mounted' = Rendered(v)
  /\ IF KeepsInstance(Rendered(showGood), Rendered(v))
     THEN /\ KeepVariant
          /\ lastEvent' = Event("toggle", BoolArg(v), FALSE)
     ELSE /\ MountVariant(currentPage, v)
          /\ lastEvent' = RemountEvent("toggle", BoolArg(v))
  /\ UNCHANGED << currentPage, nextId >>

\* ----------------------------------------------------------- render loop
\* Passive effects of the committed pass: setRenderCount(prev => prev + 1),
\* which schedules the next pass.
RunEffects ==
  /\ phase = "effects"
  /\ renderCount' = TrackRender(renderCount)
  /\ phase' = "render"
  /\ lastEvent' = Event("effects", 0, FALSE)
  /\ PageEffects
  /\ UNCHANGED << currentPage, showGood, mounted, nextId, listVars,
                  renderPasses, fearVars >>

\* The scheduled render pass runs and commits.
RenderPass ==
  /\ phase = "render"
  /\ renderPasses' = CountUp(renderPasses)
  /\ phase' = "effects"
  /\ lastEvent' = Event("render", 0, FALSE)
  /\ Rerender
  /\ UNCHANGED << currentPage, showGood, mounted, nextId, listVars,
                  renderCount >>

\* ------------------------------------------------------------ list page
OnList(sg) == currentPage = ListPage /\ showGood = sg /\ CanHandleEvent

ListFrame ==
  UNCHANGED << currentPage, showGood, mounted, trackVars, fearVars, cardVars,
               effectVars, currentTime, memoVars >>

\* Variant of GenerateId: the counter is not advanced.
GenerateIdStuck(n) == [id |-> n, next |-> n]

\* const generateId = () => nextId++ : the id returned and the counter after
GenerateId(n) == [id |-> n, next |-> n + 1]

\* BadImplementation.deleteItem(index)
BadDeleteItem(its, index) == FilterIndex(its, 1, index)

\* Variant of BadDeleteInputs: the entries behind the deleted row move up.
BadDeleteInputsShift(m, index) ==
  [k \in { j \in DOMAIN m : j < index } \cup
          { j - 1 : j \in { i \in DOMAIN m : i > index } } |->
     IF k < index THEN m[k] ELSE m[k + 1]]

\* BadImplementation.deleteItem(index) calls setItems only: the map keyed by
\* position is left as it is.
BadDeleteInputs(m, index) == m

\* Variant of GoodDeleteItem: the first item is removed, whatever the id.
GoodDeleteItemFirst(its, id) == Tail(its)

\* GoodImplementation.deleteItem(id): the items part
GoodDeleteItem(its, id) == FilterId(its, 1, id)

\* Variant of GoodDeleteInputs: the map is left as it is.
GoodDeleteInputsKeep(m, id) == m

\* GoodImplementation.deleteItem(id): the inputValues part
GoodDeleteInputs(m, id) == MapDelete(m, id)

\* toggleComplete of the bad variant (by index)
BadToggleComplete(its, index) ==
  [i \in 1..Len(its) |->
     IF i - 1 = index THEN [its[i] EXCEPT !.completed = ~its[i].completed]
     ELSE its[i]]

\* toggleComplete of the good variant (by id)
GoodToggleComplete(its, id) ==
  [i \in 1..Len(its) |->
     IF its[i].id = id THEN [its[i] EXCEPT !.completed = ~its[i].completed]
     ELSE its[i]]

\* Variant of BadAddInputs: the entry of the new row's position is removed.
BadAddInputsClear(m, index) == MapDelete(m, index)

\* BadImplementation.addItem calls setItems only: the map keyed by position
\* is left as it is; index is the position the new row gets.
BadAddInputs(m, index) == m

\* BadImplementation.addItem: generateId() is called twice
BadAddItem ==
  /\ OnList(FALSE)
  /\ nextId + 2 <= MaxNextId
  /\ Len(items) < MaxItems
  /\ LET g1 == GenerateId(nextId)
         g2 == GenerateId(g1.next)
     IN /\ items' = Append(items, [id |-> g1.id, text |-> TaskText(g2.id),
                                   completed |-> FALSE])
        /\ everIds' = everIds \cup {g1.id}
        /\ nextId' = g2.next
  /\ lastEvent' = Event("add", 0, FALSE)
  /\ inputValues' = BadAddInputs(inputValues, Len(items))
  /\ typedFor' = BadAddInputs(typedFor, Len(items))
  /\ ListFrame

\* GoodImplementation.addItem
GoodAddItem ==
  /\ OnList(TRUE)
  /\ nextId + 1 <= MaxNextId
  /\ Len(items) < MaxItems
  /\ LET g == GenerateId(nextId)
     IN /\ items' = Append(items, [id |-> g.id, text |-> TaskText(g.id),
                                   completed |-> FALSE])
        /\ everIds' = everIds \cup {g.id}
        /\ nextId' = g.next
  /\ lastEvent' = Event("add", 0, FALSE)
  /\ UNCHANGED << inputValues, typedFor >>
  /\ ListFrame

\* Delete button of the row at position p
DeleteRow(p) ==
  /\ currentPage = ListPage
  /\ CanHandleEvent
  /\ p \in Rows(items)
  /\ IF showGood
     THEN /\ items' = GoodDeleteItem(items, DisplayedId(items, p))
          /\ inputValues' = GoodDeleteInputs(inputValues, DisplayedId(items, p))
          /\ typedFor' = GoodDeleteInputs(typedFor, DisplayedId(items, p))
     ELSE /\ items' = BadDeleteItem(items, p)
          /\ inputValues' = BadDeleteInputs(inputValues, p)
          /\ typedFor' = BadDeleteInputs(typedFor, p)
  /\ lastEvent' = Event("delete", p, FALSE)
  /\ UNCHANGED << nextId, everIds >>
  /\ ListFrame

\* onChange of the text input of the row at position p
HandleInputChange(p, value) ==
  /\ currentPage = ListPage
  /\ CanHandleEvent
  /\ p \in Rows(items)
  /\ inputValues' = MapSet(inputValues, RowKey(showGood, items, p), value)
  /\ typedFor' = MapSet(typedFor, RowKey(showGood, items, p), DisplayedId(items, p))
  /\ lastEvent' = Event("type", 0, FALSE)
  /\ UNCHANGED << items, nextId, everIds >>
  /\ ListFrame

\* onChange of the checkbox of the row at position p
ToggleComplete(p) ==
  /\ currentPage = ListPage
  /\ CanHandleEvent
  /\ p \in Rows(items)
  /\ items' = IF showGood
              THEN GoodToggleComplete(items, DisplayedId(items, p))
              ELSE BadToggleComplete(items, p)
  /\ lastEvent' = Event("check", 0, FALSE)
  /\ UNCHANGED << inputValues, typedFor, nextId, everIds >>
  /\ ListFrame

\* ------------------------------------------------- re-render-cost page
\* An event of the page: the handler's state update and the render pass it
\* causes, which leaves passive effects pending.
EventPass(op) ==
  /\ renderPasses' = CountUp(renderPasses)
  /\ phase' = "effects"
  /\ lastEvent' = Event(op, 0, FALSE)
  /\ UNCHANGED << currentPage, showGood, mounted, nextId, renderCount >>

OnFear == currentPage = FearPage /\ CanHandleEvent

\* onChange of the filter input: setFilter(e.target.value)
SetFilter(f) ==
  /\ OnFear
  /\ f # filter
  /\ FearRenderTo(showGood, f, category, unrelatedState)
  /\ EventPass("filter")
  /\ UNCHANGED << listVars, cardVars, effectVars, currentTime, memoVars >>

\* onChange of the category select: setCategory(e.target.value)
SetCategory(c) ==
  /\ OnFear
  /\ c # category
  /\ FearRenderTo(showGood, filter, c, unrelatedState)
  /\ EventPass("category")
  /\ UNCHANGED << listVars, cardVars, effectVars, currentTime, memoVars >>

\* onClick of the counter button: setUnrelatedState(prev => prev + 1)
ClickUnrelated ==
  /\ OnFear
  /\ unrelatedState < MaxUnrelated
  /\ FearRenderTo(showGood, filter, category, unrelatedState + 1)
  /\ EventPass("unrelated")
  /\ UNCHANGED << listVars, cardVars, effectVars, currentTime, memoVars >>

\* ---------------------------------------------------- derived-state page
OnCard == currentPage = CardPage /\ CanHandleEvent

\* onChange of the first-name input: setFirstName(e.target.value)
SetFirstName(fn) ==
  /\ OnCard
  /\ fn # firstName
  /\ CardRenderTo(showGood, fn, lastName)
  /\ EventPass("first")
  /\ UNCHANGED << listVars, fearVars, fullName, isFlashing, effectRunCount,
                  effectVars, currentTime, memoVars >>

\* onChange of the last-name input: setLastName(e.target.value)
SetLastName(ln) ==
  /\ OnCard
  /\ ln # lastName
  /\ CardRenderTo(showGood, firstName, ln)
  /\ EventPass("last")
  /\ UNCHANGED << listVars, fearVars, fullName, isFlashing, effectRunCount,
                  effectVars, currentTime, memoVars >>

\* The 300 ms timeout of the bad card fires: setIsFlashing(false)
FlashTimeout ==
  /\ OnCard
  /\ ~showGood
  /\ flashTimers > 0
  /\ flashTimers' = flashTimers - 1
  /\ isFlashing' = FALSE
  /\ CardRenderTo(showGood, firstName, lastName)
  /\ EventPass("flash")
  /\ UNCHANGED << listVars, fearVars, fullName, effectRunCount, effectDeps,
                  clockTimers, renderingTimers, currentTime, memoVars >>

\* ---------------------------------------------------------- context page
\* The interval callback: setCurrentTime(new Date().toLocaleTimeString()).
\* With advance the string differs from the state; without, the callback ran
\* within the same second and the state update bails out.
Tick(advance) ==
  /\ currentPage = ContextPage
  /\ CanHandleEvent
  /\ clockTimers > 0
  /\ IF advance
     THEN /\ currentTime < MaxTicks
          /\ currentTime' = currentTime + 1
          /\ IF ProfileContextChanged(showGood, TRUE)
             THEN /\ renderPasses' = CountUp(renderPasses)
                  /\ phase' = "effects"
                  /\ UNCHANGED renderCount
             ELSE UNCHANGED trackVars
          /\ lastEvent' = Event("tick", 1, FALSE)
     ELSE /\ UNCHANGED << currentTime, trackVars >>
          /\ lastEvent' = Event("tick", 0, FALSE)
  /\ UNCHANGED << currentPage, showGood, mounted, nextId, listVars, fearVars,
                  cardVars, effectVars, memoVars >>

\* ------------------------------------------------------ memoization page
OnMemo == currentPage = MemoPage /\ CanHandleEvent

\* onChange of the text input: setInputValue(e.target.value). Where the state
\* lives in the parent, the parent renders, with the renderCount it has
\* rendered before; otherwise InputComponent renders alone.
SetInputValue(v) ==
  /\ OnMemo
  /\ v # inputValue
  /\ inputValue' = v
  /\ IF InputStateInParent(showGood)
     THEN /\ renderPasses' = CountUp(renderPasses)
          /\ phase' = "effects"
          /\ childPasses' =
               (IF ChildRendersWithParent(showGood, shownRenderCount,
                                          shownRenderCount)
                THEN CountUp(childPasses) ELSE childPasses)
          /\ UNCHANGED << renderCount, inputPasses >>
     ELSE /\ inputPasses' = CountUp(inputPasses)
          /\ UNCHANGED << trackVars, childPasses >>
  /\ lastEvent' = Event("key", 0, FALSE)
  /\ UNCHANGED << currentPage, showGood, mounted, nextId, listVars, fearVars,
                  cardVars, effectVars, currentTime, shownRenderCount,
                  isRendering >>

\* The 150 ms timeout of the slow child fires: setIsRendering(false), which
\* renders the child alone.
RenderingTimeout ==
  /\ OnMemo
  /\ renderingTimers > 0
  /\ renderingTimers' = renderingTimers - 1
  /\ isRendering' = FALSE
  /\ childPasses' = CountUp(childPasses)
  /\ lastEvent' = Event("rendered", 0, FALSE)
  /\ UNCHANGED << currentPage, showGood, mounted, nextId, listVars, fearVars,
                  cardVars, trackVars, effectDeps, flashTimers, clockTimers,
                  currentTime, inputValue, shownRenderCount, inputPasses >>

\* ------------------------------------------------------------------ spec
Next ==
  \/ \E id \in Pages : SetCurrentPage(id)
  \/ \E v \in BOOLEAN : SetShowGood(v)
  \/ RunEffects
  \/ RenderPass
  \/ BadAddItem
  \/ GoodAddItem
  \/ \E p \in 0..(MaxItems - 1) : DeleteRow(p)
  \/ \E p \in 0..(MaxItems - 1), t \in Texts : HandleInputChange(p, t)
  \/ \E p \in 0..(MaxItems - 1) : ToggleComplete(p)
  \/ \E f \in Filters : SetFilter(f)
  \/ \E c \in Categories : SetCategory(c)
  \/ ClickUnrelated
  \/ \E fn \in FirstNames : SetFirstName(fn)
  \/ \E ln \in LastNames : SetLastName(ln)
  \/ FlashTimeout
  \/ \E advance \in BOOLEAN : Tick(advance)
  \/ \E v \in InputTexts : SetInputValue(v)
  \/ RenderingTimeout

Spec == Init /\ [][Next]_vars

\* Scheduling: a pending effect flush and a scheduled render pass do run.
FairSpec == Spec /\ WF_vars(RunEffects) /\ WF_vars(RenderPass)

\* Scheduling with timers: a pending 300 ms timeout also fires; its callback
\* runs between two passes of the render loop, so it is enabled again and
\* again rather than continuously.
TimerFairSpec == FairSpec /\ SF_vars(FlashTimeout)

\* ---------------------------------------------------------------- claims
ItemIds(its) == [i \in 1..Len(its) |-> its[i].id]

OnBadList == currentPage = ListPage /\ ~showGood

OnGoodList == currentPage = ListPage /\ showGood

RenderStep(e) == e.op \in {"render", "effects"}

\* C1: on every Topic Page exactly one Demo Variant is mounted in every
\* reachable state: the bad one iff showGood is false, the good one iff
\* showGood is true; never both, never none.
ExactlyOneVariantMounted ==
  /\ Cardinality(mounted) = 1
  /\ ("bad" \in mounted) <=> ~showGood
  /\ ("good" \in mounted) <=> showGood

\* C1 witness: the good variant was mounted by a toggle.
GoodVariantMounted ==
  /\ lastEvent.op = "toggle"
  /\ lastEvent.remount
  /\ showGood
  /\ "good" \in mounted

\* C2: a click on the button of the variant that is already active unmounts
\* nothing, mounts nothing and leaves the variant's list, inputs and counters
\* as they were.
SetToggleIdempotent ==
  [][(lastEvent'.op = "toggle" /\ lastEvent'.arg = BoolArg(showGood))
       => /\ ~lastEvent'.remount
          /\ UNCHANGED << showGood, mounted, items, inputValues, renderCount,
                          renderPasses, phase, nextId >>]_vars

\* C2 witness: the active button was clicked on a variant whose list and
\* inputs had been changed.
SameToggleOnChangedVariant ==
  /\ lastEvent.op = "toggle"
  /\ ~lastEvent.remount
  /\ currentPage = ListPage
  /\ items # InitialItems
  /\ inputValues # EmptyMap

FreshMountAssignsFirstId ==
  (currentPage = ListPage /\ lastEvent.remount) => nextId = FirstNextId

\* C5: the render counter is 0 on mount, counts every completed render pass
\* of the instance exactly once (the pass whose effects are still due is the
\* only one not yet counted) and never decreases while the instance stays
\* mounted.
RenderCounterCountsPasses ==
  [][/\ lastEvent'.remount => renderCount' = 0
     /\ ~lastEvent'.remount => renderCount' >= renderCount
     /\ renderPasses' <= MaxRenderCount
          => renderPasses' = renderCount' + (IF phase' = "effects" THEN 1 ELSE 0)
     /\ (lastEvent'.op = "render" /\ renderPasses < MaxRenderCount)
          => renderPasses' = renderPasses + 1]_vars

\* C5 witness: two render passes of one instance were counted.
TwoPassesCounted ==
  /\ renderCount = 2
  /\ renderPasses = 2
  /\ phase = "render"

\* C6 (as claimed): once user events stop, the mounted variant comes to rest:
\* no effect flush is due and no render pass is scheduled any more.
QuiescentAfterEvents ==
  <>[](RenderStep(lastEvent) \/ phase = "idle") => <>[](phase = "idle")

\* C7: in the good list variant a delete changes, for no remaining item, the
\* text shown in its row or its checkbox.
GoodDeleteKeepsRows ==
  [][(OnGoodList /\ lastEvent'.op = "delete")
       => \A q \in Rows(items') :
            \E p \in Rows(items) :
              /\ DisplayedId(items, p) = DisplayedId(items', q)
              /\ DisplayedText(TRUE, items', inputValues', q)
                   = DisplayedText(TRUE, items, inputValues, p)
              /\ DisplayedChecked(items', q) = DisplayedChecked(items, p)]_vars

\* C7 witness: ids [1,2,3] with texts [a,b,c], id 1 deleted: rows [2,3] show
\* [b,c].
GoodDeleteExample ==
  /\ OnGoodList
  /\ lastEvent.op = "delete"
  /\ ItemIds(items) = << 2, 3 >>
  /\ DisplayedText(TRUE, items, inputValues, 0) = "b"
  /\ DisplayedText(TRUE, items, inputValues, 1) = "c"
  /\ 1 \notin DOMAIN inputValues

BadRowsABC ==
  /\ OnBadList
  /\ ItemIds(items) = << 1, 2, 3 >>
  /\ DisplayedText(FALSE, items, inputValues, 0) = "a"
  /\ DisplayedText(FALSE, items, inputValues, 1) = "b"
  /\ DisplayedText(FALSE, items, inputValues, 2) = "c"

\* C8 (as claimed): bad variant, ids [1,2,3] with row texts [a,b,c]: after
\* deleting the first row, position 0 shows id 2 and the text "b".
BadDeleteFirstShowsB ==
  [][(BadRowsABC /\ lastEvent'.op = "delete" /\ lastEvent'.arg = 0)
       => /\ DisplayedId(items', 0) = 2
          /\ DisplayedText(FALSE, items', inputValues', 0) = "b"]_vars

\* C8 (amended): bad variant, ids [1,2,3] with row texts [a,b,c]: after
\* deleting the first row, position 0 shows id 2 and the text "a", the text
\* typed into the row of the deleted item; position 1 shows id 3 and "b".
BadDeleteFirstShowsA ==
  [][(BadRowsABC /\ lastEvent'.op = "delete" /\ lastEvent'.arg = 0)
       => /\ DisplayedId(items', 0) = 2
          /\ DisplayedText(FALSE, items', inputValues', 0) = "a"
          /\ DisplayedId(items', 1) = 3
          /\ DisplayedText(FALSE, items', inputValues', 1) = "b"]_vars

\* C8 witness: the state after that delete.
BadDeleteFirstDone ==
  /\ OnBadList
  /\ lastEvent.op = "delete"
  /\ lastEvent.arg = 0
  /\ ItemIds(items) = << 2, 3 >>
  /\ inputValues = (0 :> "a" @@ 1 :> "b" @@ 2 :> "c")

\* Every row shows a text typed for the item it holds, no two rows the same.
RowsTypedDistinct ==
  /\ \A p \in Rows(items) :
       /\ p \in DOMAIN typedFor
       /\ typedFor[p] = DisplayedId(items, p)
  /\ \A p, q \in Rows(items) :
       p # q => DisplayedText(FALSE, items, inputValues, p)
                  # DisplayedText(FALSE, items, inputValues, q)

Bleeds(its, vals, owner, q) ==
  /\ q \in DOMAIN owner
  /\ DisplayedText(FALSE, its, vals, q) # ""
  /\ owner[q] # DisplayedId(its, q)

\* C9: bad variant: after a distinct text was typed into each row, deleting a
\* row that is not the last leads to a state in which a remaining item is
\* shown with a text typed while another item held the row.
BadDeleteBleeds ==
  [][(/\ OnBadList
      /\ RowsTypedDistinct
      /\ lastEvent'.op = "delete"
      /\ lastEvent'.arg < Len(items) - 1)
       => \E q \in Rows(items') : Bleeds(items', inputValues', typedFor', q)]_vars

\* C9 witness: a state of the bad variant, reached by a delete, with a row
\* whose text was typed for another item.
BadBleedState ==
  /\ OnBadList
  /\ lastEvent.op = "delete"
  /\ \E q \in Rows(items) : Bleeds(items, inputValues, typedFor, q)

\* C10 (as claimed): bad variant: the first row is checked, the second is
\* not; after deleting the first row the item that moved up to position 0 is
\* shown checked.
BadDeleteShiftsCheckbox ==
  [][(/\ OnBadList
      /\ Len(items) >= 2
      /\ DisplayedChecked(items, 0)
      /\ ~DisplayedChecked(items, 1)
      /\ lastEvent'.op = "delete"
      /\ lastEvent'.arg = 0)
       => DisplayedChecked(items', 0)]_vars

\* C11: in both list variants the ids in the list are pairwise distinct in
\* every reachable state, and the id given by 'add item' is the id of no item
\* the list holds or ever held (deleted items and the three initial items
\* included).
ListIdsUniqueNeverReused ==
  [][/\ currentPage' = ListPage
          => /\ Cardinality(Ids(items')) = Len(items')
             /\ Ids(items') \subseteq everIds'
     /\ lastEvent'.op = "add"
          => /\ items'[Len(items')].id \notin everIds
             /\ items'[Len(items')].id \notin Ids(InitialItems)
             /\ SubSeq(items', 1, Len(items)) = items]_vars

\* C11 witness: an item was added after an item had been deleted, in a list
\* that holds an added item already.
AddedAfterDelete ==
  /\ currentPage = ListPage
  /\ lastEvent.op = "add"
  /\ Cardinality(everIds) > Len(items)
  /\ Cardinality(everIds) >= 5

OnGoodFear == currentPage = FearPage /\ showGood

OnBadFear == currentPage = FearPage /\ ~showGood

\* C12: in the good re-render-cost variant a click on the unrelated counter
\* button causes a render pass and leaves calculationCount, the memo cell and
\* the filtered list as they were.
UnrelatedClickKeepsMemo ==
  [][(lastEvent'.op = "unrelated" /\ showGood)
       => /\ renderPasses' = CountUp(renderPasses)
          /\ unrelatedState' = unrelatedState + 1
          /\ calculationCount' = calculationCount
          /\ calcRuns' = calcRuns
          /\ memo' = memo
          /\ filteredItems' = filteredItems]_vars

\* C12 witness: the button was clicked in the good variant after a filter
\* change had made the memo recompute a non-empty list.
GoodUnrelatedClicked ==
  /\ OnGoodFear
  /\ lastEvent.op = "unrelated"
  /\ filter # << >>
  /\ filteredItems # << >>
  /\ calculationCount = 2
  /\ renderPasses = 3

\* C13: in the bad re-render-cost variant every render pass executes
\* filter+sort once, also a pass caused by the unrelated counter button: the
\* number of executions equals the number of render passes and the list shown
\* is the one computed in the pass.
BadComputesEveryPass ==
  [][(currentPage' = FearPage /\ ~showGood')
       => /\ calcRuns' = renderPasses'
          /\ filteredItems' = FilterSort(filter', category')
          /\ lastEvent'.op \in {"unrelated", "render", "filter", "category"}
               => calcRuns' = CountUp(calcRuns)]_vars

\* C13 witness: the bad variant after a click on the unrelated counter button
\* that caused its third render pass.
BadUnrelatedClicked ==
  /\ OnBadFear
  /\ lastEvent.op = "unrelated"
  /\ calcRuns = 3
  /\ renderPasses = 3

\* C14: in the good re-render-cost variant the computation counter is never
\* ahead of the render passes (and at most one ahead of the render counter,
\* whose effect runs after the pass), and it is behind them after every pass
\* that no change of filter or category caused.
GoodCalcBehindRenders ==
  [][(currentPage' = FearPage /\ showGood')
       => /\ calculationCount' <= renderPasses'
          /\ calculationCount' <= renderCount' + 1
          /\ calculationCount' = calcRuns'
          /\ (/\ lastEvent'.op \in {"unrelated", "render"}
              /\ renderPasses' <= MaxRenderCount)
               => calculationCount' < renderPasses']_vars

\* C14 as stated: in the good variant the render counter and the computation
\* counter never differ.
GoodCountersEqual == OnGoodFear => renderCount = calculationCount

\* C14 witness: the good variant with the render counter ahead of the
\* computation counter after a click on the unrelated counter button.
GoodCountersDiffer ==
  /\ OnGoodFear
  /\ lastEvent.op = "effects"
  /\ unrelatedState = 1
  /\ calculationCount = 1
  /\ renderCount = 2

OnGoodCard == currentPage = CardPage /\ showGood

OnBadCard == currentPage = CardPage /\ ~showGood

NameChange(e) == e.op \in {"first", "last"}

\* C15: whatever the good card has rendered last shows first + " " + last of
\* the names of that render pass.
GoodCardShowsCurrentName ==
  OnGoodCard => shownFullName = firstName \o << " " >> \o lastName

\* C15 witness: the good card after the render pass of a first-name change.
GoodCardAfterChange ==
  /\ OnGoodCard
  /\ lastEvent.op = "first"
  /\ firstName = << "A", "l" >>
  /\ shownFullName = << "A", "l", " ", "D", "o", "e" >>

\* C16 (as claimed): the good card renders once for a change of first or last
\* name and not otherwise: every render pass of the mounted card is the pass
\* of a name change.
GoodCardOneRenderPerChange ==
  [][(OnGoodCard /\ ~lastEvent'.remount /\ renderPasses < MaxRenderCount)
       => IF NameChange(lastEvent')
          THEN renderPasses' = renderPasses + 1
          ELSE renderPasses' = renderPasses]_vars

\* C17: the bad card shows an empty full name in its first render pass; the
\* render pass of a name change shows the stored name, which is not the name
\* of the new inputs; a render pass after the effect flush shows first + " " +
\* last.
BadCardConvergesInTwoPasses ==
  [][/\ (lastEvent'.remount /\ currentPage' = CardPage /\ ~showGood')
          => shownFullName' = << >>
     /\ (OnBadCard /\ NameChange(lastEvent'))
          => /\ shownFullName' = fullName
             /\ shownFullName' # firstName' \o << " " >> \o lastName'
     /\ (OnBadCard /\ lastEvent'.op \in {"render", "flash"})
          => shownFullName' = firstName' \o << " " >> \o lastName']_vars

\* C17 witness: the bad card after the second render pass that followed a
\* first-name change.
BadCardConverged ==
  /\ OnBadCard
  /\ lastEvent.op = "render"
  /\ firstName = << "A", "l" >>
  /\ effectRunCount = 2
  /\ shownFullName = << "A", "l", " ", "D", "o", "e" >>

OnGoodContext == currentPage = ContextPage /\ showGood

OnBadContext == currentPage = ContextPage /\ ~showGood

\* C18 (as claimed): in the split-context variant the user profile shows a
\* render count of 1 once the time has been updated 5 times.
GoodProfileRendersOnce ==
  (OnGoodContext /\ currentTime = 5) => renderCount = 1

\* C19: in the single-context variant every update of the time causes a
\* render pass of the user profile, and with 5 updates done its render count
\* is at least 5.
BadProfileRendersOnTick ==
  [][/\ (OnBadContext /\ lastEvent'.op = "tick" /\ lastEvent'.arg = 1)
          => /\ currentTime' = currentTime + 1
             /\ renderPasses' = CountUp(renderPasses)
             /\ phase' = "effects"
     /\ (currentPage' = ContextPage /\ ~showGood' /\ currentTime' >= 5)
          => renderCount' >= 5]_vars

\* C19 witness: the bad variant right after the fifth update of the time.
BadProfileAfterFiveTicks ==
  /\ OnBadContext
  /\ lastEvent.op = "tick"
  /\ lastEvent.arg = 1
  /\ currentTime = 5
  /\ renderCount >= 5

\* C20: an unmount leaves no interval and no timeout of the unmounted variant
\* behind: after it no timer is pending, so a tick or a timeout callback runs
\* only for a timer that the variant on screen has started itself.
UnmountCancelsTimers ==
  [][/\ lastEvent'.remount
          => (flashTimers' = 0 /\ clockTimers' = 0 /\ renderingTimers' = 0)
     /\ renderingTimers' > 0 => (currentPage' = MemoPage /\ effectDeps'.set)
     /\ lastEvent'.op = "rendered" => renderingTimers > 0
     /\ flashTimers' > 0
          => (currentPage' = CardPage /\ ~showGood' /\ effectDeps'.set)
     /\ clockTimers' > 0 => (currentPage' = ContextPage /\ effectDeps'.set)
     /\ lastEvent'.op = "flash" => flashTimers > 0
     /\ lastEvent'.op = "tick" => clockTimers > 0]_vars

\* C20 witness: a variant was unmounted while a timer of its own was pending.
UnmountedWithTimerPending ==
  /\ lastEvent.remount
  /\ lastEvent.cancelled > 0
  /\ flashTimers = 0
  /\ clockTimers = 0

\* C21: a page that mounts starts with the toggle off: the step that leaves a
\* page ends with the bad variant of the new page mounted, whatever the toggle
\* was on the page left, so going away and back shows the bad variant.
PageMountResetsToggle ==
  [][(lastEvent'.op = "page" /\ currentPage' # currentPage)
       => /\ lastEvent'.remount
          /\ showGood' = FALSE
          /\ mounted' = {"bad"}]_vars

\* C21 witness: a page was mounted by a click made while the page left showed
\* its good variant.
PageLeftWithGoodVariant ==
  /\ lastEvent.op = "page"
  /\ lastEvent.remount
  /\ lastEvent.arg = 1
  /\ ~showGood
  /\ mounted = {"bad"}

OnGoodMemo == currentPage = MemoPage /\ showGood

OnBadMemo == currentPage = MemoPage /\ ~showGood

\* C22: in the good memoization variant a keystroke renders InputComponent
\* and nothing else: no render pass of GoodImplementation or of the slow
\* child, the parent's render counter and pending work as before; in the bad
\* variant a keystroke causes a render pass of the parent.
KeystrokeRendersOnlyInput ==
  [][/\ (lastEvent'.op = "key" /\ showGood)
          => /\ inputValue' # inputValue
             /\ inputPasses' = CountUp(inputPasses)
             /\ renderPasses' = renderPasses
             /\ childPasses' = childPasses
             /\ renderCount' = renderCount
             /\ shownRenderCount' = shownRenderCount
             /\ phase' = phase
     /\ (lastEvent'.op = "key" /\ ~showGood)
          => /\ inputValue' # inputValue
             /\ renderPasses' = CountUp(renderPasses)
             /\ phase' = "effects"]_vars

\* C22 witness: the good variant after the second keystroke.
GoodSecondKeystroke ==
  /\ OnGoodMemo
  /\ lastEvent.op = "key"
  /\ inputValue = "hi"
  /\ inputPasses = 3
  /\ renderPasses < MaxRenderCount

\* C23 (as claimed): in the bad memoization variant the memo wrapper keeps the
\* slow child from rendering again: neither the parent's render pass of a
\* keystroke nor the effect flush and the pass that follow it add a render
\* pass of the child; the child renders again only for its own timeout.
MemoKeepsChildStill ==
  [][(OnBadMemo /\ lastEvent'.op \in {"key", "effects", "render"})
       => childPasses' = childPasses]_vars

\* C24: a delete on the row at position p removes one item, the one whose id
\* the row showed, and keeps every other item with its fields and in its
\* order, in the good variant as in the bad one.
DeleteRemovesClickedItem ==
  [][(currentPage = ListPage /\ lastEvent'.op = "delete")
       => LET p == lastEvent'.arg
          IN /\ p \in Rows(items)
             /\ Len(items') = Len(items) - 1
             /\ items[p + 1].id \notin { items'[i].id : i \in 1..Len(items') }
             /\ \A i \in 1..Len(items') :
                  items'[i] = IF i <= p THEN items[i] ELSE items[i + 1]]_vars

\* C24 witness: in the good variant the second of three rows was deleted
\* after an item had been added.
GoodDeletedMiddleAfterAdd ==
  /\ OnGoodList
  /\ lastEvent.op = "delete"
  /\ lastEvent.arg = 1
  /\ Len(items) = 2
  /\ Cardinality(everIds) >= 4
  /\ \E i \in 1..Len(items) : items[i].id >= FirstNextId

\* C25: currentPage starts as 'memoization' and is always one of the five
\* sidebar ids; the one page component rendered is the page of that id; a
\* click on the id that is current mounts nothing and leaves the toggle and
\* the variant as they are, a click on another id mounts that id's page.
ShellMountsOnePage ==
  [][/\ lastEvent.op = "init" => currentPage = "memoization"
     /\ currentPage' \in Pages
     /\ lastEvent'.op = "page"
          => /\ Cardinality(Pages) = 5
             /\ \A other \in Pages \ {currentPage'} :
                  RenderPage(other) # RenderPage(currentPage')
             /\ IF currentPage' = currentPage
                THEN /\ ~lastEvent'.remount
                     /\ UNCHANGED << showGood, mounted, variantVars, nextId >>
                ELSE lastEvent'.remount]_vars

\* C25 witness: the sidebar button of the current page was clicked while the
\* page showed its good variant.
CurrentPageSelectedAgain ==
  /\ lastEvent.op = "page"
  /\ ~lastEvent.remount
  /\ currentPage = "context-misuse"
  /\ showGood
  /\ currentTime > 0

\* C26: in every render pass of the good re-render-cost variant the list
\* shown is what filter+sort, as the bad variant runs it, returns for the
\* filter and category of the pass, and calculationCount goes up in a pass of
\* the mounted variant only if that pair differs from the pair the cached
\* result was computed for.
GoodListNeverStale ==
  [][(currentPage' = FearPage /\ showGood')
       => /\ filteredItems' = FilterSort(filter', category')
          /\ memo'.set
          /\ memo'.value = filteredItems'
          /\ (~lastEvent'.remount /\ calculationCount' # calculationCount)
               => /\ << filter', category' >> # memo.deps
                  /\ calculationCount' = CountUp(calculationCount)]_vars

\* C26 witness: the good variant after a category change that followed a
\* filter change, showing a list shorter than the whole data set.
GoodRecomputedForCategory ==
  /\ OnGoodFear
  /\ lastEvent.op = "category"
  /\ filter # << >>
  /\ category # "ALL"
  /\ calculationCount = 3
  /\ Len(filteredItems) < ItemCount

\* C27: in the good list variant every key of inputValues is the id of an item
\* that is in the list, and the delete of a row leaves no entry under the id
\* the row showed.
GoodInputKeysAreItemIds ==
  [][(currentPage' = ListPage /\ showGood')
       => /\ DOMAIN inputValues' \subseteq { items'[i].id : i \in 1..Len(items') }
          /\ (lastEvent'.op = "delete" /\ currentPage = ListPage)
               => items[lastEvent'.arg + 1].id \notin DOMAIN inputValues']_vars

\* C27 witness: the good variant after a delete, with a text kept for each of
\* the two rows that are left and an id gone from the list.
GoodDeletedWithTexts ==
  /\ OnGoodList
  /\ lastEvent.op = "delete"
  /\ Len(items) = 2
  /\ DOMAIN inputValues = { items[i].id : i \in 1..Len(items) }
  /\ everIds \ DOMAIN inputValues # {}

\* C28: in the bad list variant the map of typed texts is keyed by position
\* and only typing writes it: it is empty on mount, a keystroke sets the entry
\* of one position, and deletes, adds and checkbox clicks leave every entry as
\* it is; the row at position p shows the entry of p, so an item added behind
\* the rows is shown with the text typed at its position before.
BadTextStaysAtPosition ==
  [][/\ (lastEvent'.remount /\ currentPage' = ListPage /\ ~showGood')
          => inputValues' = EmptyMap
     /\ (OnBadList /\ lastEvent'.op \in {"delete", "add", "check"})
          => inputValues' = inputValues
     /\ (OnBadList /\ lastEvent'.op = "type")
          => \E p \in Rows(items) : \E v \in Texts :
               /\ p \in DOMAIN inputValues'
               /\ inputValues'[p] = v
               /\ \A q \in (DOMAIN inputValues' \cup DOMAIN inputValues) \ {p} :
                    /\ q \in DOMAIN inputValues' \cap DOMAIN inputValues
                    /\ inputValues'[q] = inputValues[q]
     /\ (currentPage' = ListPage /\ ~showGood')
          => \A p \in Rows(items') :
               DisplayedText(FALSE, items', inputValues', p)
                 = IF p \in DOMAIN inputValues' THEN inputValues'[p] ELSE ""
     /\ (OnBadList /\ lastEvent'.op = "add")
          => DisplayedText(FALSE, items', inputValues', Len(items))
               = DisplayedText(FALSE, items', inputValues, Len(items))]_vars

\* C28 witness: in the bad variant the last row was deleted and an item added:
\* the new item is shown with the text typed for the deleted one.
BadNewItemShowsOldText ==
  /\ OnBadList
  /\ lastEvent.op = "add"
  /\ Len(items) = 3
  /\ 2 \in DOMAIN typedFor
  /\ typedFor[2] = 3
  /\ items[3].id >= FirstNextId
  /\ DisplayedText(FALSE, items, inputValues, 2) = "c"

\* C29 (as claimed): an item made by 'add item' has the text "Task k" with k
\* its own id, in both variants, and an add takes one id, so that consecutive
\* adds get consecutive ids.
AddedItemLabelledWithOwnId ==
  [][(currentPage = ListPage /\ lastEvent'.op = "add")
       => /\ items'[Len(items')].text = TaskText(items'[Len(items')].id)
          /\ items'[Len(items')].id = nextId
          /\ nextId' = nextId + 1]_vars

\* The events that change a name prop of the card
NameChangeOps == {"first", "last"}

\* The bad card stays mounted and its names no longer change.
BadCardQuiet ==
  /\ OnBadCard
  /\ ~lastEvent.remount
  /\ lastEvent.op \notin NameChangeOps

\* C30: in the bad derived-state card at most one flash timeout is pending;
\* effectRunCount goes up by exactly 1 in the effect flush after the mount
\* and after each change of firstName or lastName, and in no other step; and
\* once the names stop changing while the card stays mounted, isFlashing
\* eventually is false for good.
BadCardFlashSettles ==
  /\ [](OnBadCard => flashTimers <= 1)
  /\ [][OnBadCard'
         => IF lastEvent'.remount
            THEN effectRunCount' = 0
            ELSE IF /\ lastEvent'.op = "effects"
                    /\ (lastEvent.remount \/ lastEvent.op \in NameChangeOps)
                 THEN /\ effectRunCount <= MaxRenderCount
                         => effectRunCount' = effectRunCount + 1
                      /\ flashTimers' = 1
                      /\ isFlashing'
                 ELSE effectRunCount' = effectRunCount]_vars
  /\ (<>[]BadCardQuiet => <>[]~isFlashing)

\* C30 witness: the bad card after its mount effect and the effects of two
\* name changes, the last timeout fired and the flash off.
BadCardFlashOver ==
  /\ OnBadCard
  /\ lastEvent.op = "flash"
  /\ effectRunCount = 3
  /\ flashTimers = 0
  /\ ~isFlashing

====
